---- MODULE Spec2Model ----
(***************************************************************************)
(* GitHub event monitor (src/main.py): a polling loop that fetches the     *)
(* events of every subscribed repository, dedups and classifies them and   *)
(* merges them into a bounded in-memory log, plus the HTTP handlers        *)
(* subscribe / inspect / clear that share that state.                      *)
(*                                                                         *)
(* Execution model.  poller_manager, the poll_repo_events tasks and the    *)
(* async handler subscribe_repo are coroutines of one asyncio event loop:  *)
(* code between two awaits runs without another coroutine in between.      *)
(* get_events and clear_events are plain "def" handlers, which FastAPI     *)
(* runs on worker threads: their steps interleave with every step of the   *)
(* event loop.                                                             *)
(***************************************************************************)
EXTENDS Integers, Sequences, FiniteSets, TLC

(***************************************************************************)
(* Bounds of the model                                                     *)
(***************************************************************************)
\* the wall clock reads 0..MaxClock
MaxClock == 1
\* clock values per second: a value t with t % TicksPerSec = 0 has a zero
\* microsecond field
TicksPerSec == 2
\* polling cycles that fetch (cycles over an empty registry are not counted)
MaxCycles == 2
\* clear requests served
MaxClears == 1
\* polling cycles of the bulk specification, each served a page of fresh events
MaxBulkCycles == 3
\* events of one page of the upstream (bulk specification)
PageSize == 100

(***************************************************************************)
(* Program constants                                                       *)
(***************************************************************************)
\* events = sorted(...)[:200]
LogCapacity == 200
\* events[:20]
InspectLimit == 20

None == "None"
\* Python's None where the other values are texts (sequences of characters):
\* no text the code builds in that place is empty
NoText == <<>>

(***************************************************************************)
(* Strings are sequences of one-character strings.                         *)
(***************************************************************************)
GH == <<"g", "i", "t", "h", "u", "b", ".", "c", "o", "m", "/">>

Letters == {"a", "b", "c", "d", "g", "h", "i", "m", "o", "p", "s", "t", "u", "x"}
Digits == {"0", "1"}
\* \w of the regular expression
WordChars == Letters \cup Digits \cup {"_"}
\* [\w-]
OwnerChars == WordChars \cup {"-"}
\* [\w.-]
NameChars == WordChars \cup {".", "-"}

Url1 == <<"h", "t", "t", "p", "s", ":", "/", "/">> \o GH \o <<"a", "/", "b">>

\* the request bodies of POST /subscribe
Urls ==
  { Url1,
    GH \o <<"a", "/", "b", "/">>,
    GH \o <<"c", "/", "d", ".", "x", "/", "p">>,
    GH \o <<"a">>,
    <<"a", "/", "b">> }

\* the last index of the maximal run of characters of class cls that starts
\* at index from (from - 1 when the run is empty)
RunEnd(s, from, cls) ==
  CHOOSE e \in (from - 1)..Len(s) :
    /\ \A j \in from..e : s[j] \in cls
    /\ (e = Len(s) \/ s[e + 1] \notin cls)

\* does github\.com/([\w-]+/[\w.-]+) match at index p
MatchesAt(s, p) ==
  /\ p + Len(GH) - 1 <= Len(s)
  /\ SubSeq(s, p, p + Len(GH) - 1) = GH
  /\ LET o == RunEnd(s, p + Len(GH), OwnerChars)
     IN /\ o >= p + Len(GH)
        /\ o + 1 <= Len(s)
        /\ s[o + 1] = "/"
        /\ RunEnd(s, o + 2, NameChars) >= o + 2

\* group 1 when the name class also admits "/": the match runs into the path
Group1WithPath(s, p) ==
  LET o == RunEnd(s, p + Len(GH), OwnerChars)
  IN SubSeq(s, p + Len(GH), RunEnd(s, o + 2, NameChars \cup {"/"}))

\* group 1 of the match at p
Group1(s, p) ==
  LET o == RunEnd(s, p + Len(GH), OwnerChars)
  IN SubSeq(s, p + Len(GH), RunEnd(s, o + 2, NameChars))

\* str.rstrip('/')
RStripSlash(s) ==
  LET keep == CHOOSE n \in 0..Len(s) :
                /\ \A j \in (n + 1)..Len(s) : s[j] = "/"
                /\ (n = 0 \/ s[n] # "/")
  IN SubSeq(s, 1, keep)

\* extract_repo: re.search takes the leftmost match
extract_repo(url) ==
  IF \E p \in 1..Len(url) : MatchesAt(url, p)
  THEN LET p == CHOOSE q \in 1..Len(url) :
                  MatchesAt(url, q) /\ \A r \in 1..(q - 1) : ~MatchesAt(url, r)
       IN RStripSlash(Group1(url, p))
  ELSE NoText

\* the keys a subscribe of the model can register
Repos == {extract_repo(u) : u \in {v \in Urls : \E p \in 1..Len(v) : MatchesAt(v, p)}}

(***************************************************************************)
(* JSON values of the upstream, tagged with their Python type: None, str   *)
(* (a sequence of characters), list, dict (a function of its keys).        *)
(***************************************************************************)
JNull == [t |-> "null", v |-> <<>>]
JStr(s) == [t |-> "str", v |-> s]
JArr(s) == [t |-> "arr", v |-> s]
JObj(f) == [t |-> "obj", v |-> f]
EmptyObj == JObj(<<>>)

IsObj(x) == x.t = "obj"
IsStr(x) == x.t = "str"
IsStrEq(x, s) == x.t = "str" /\ x.v = s
\* bool(x)
Truthy(x) ==
  CASE x.t = "null" -> FALSE
    [] x.t = "obj" -> DOMAIN x.v # {}
    [] OTHER -> x.v # <<>>
\* d.get(k, dflt) of a dict d
Get(d, k, dflt) == IF k \in DOMAIN d.v THEN d.v[k] ELSE dflt

\* sub in s, for two strings
Contains(s, sub) ==
  \E p \in 1..(Len(s) - Len(sub) + 1) : SubSeq(s, p, p + Len(sub) - 1) = sub
\* s.split(sep)[-1]
LastSegment(s, sep) ==
  LET cut == CHOOSE n \in 0..Len(s) :
               /\ (n = 0 \/ s[n] = sep)
               /\ \A j \in (n + 1)..Len(s) : s[j] # sep
  IN SubSeq(s, cut + 1, Len(s))
\* s.split(sep)[0]
FirstSegment(s, sep) ==
  LET cut == CHOOSE n \in 1..(Len(s) + 1) :
               /\ (n = Len(s) + 1 \/ s[n] = sep)
               /\ \A j \in 1..(n - 1) : s[j] # sep
  IN SubSeq(s, 1, cut - 1)

S_PushEvent == <<"P", "u", "s", "h", "E", "v", "e", "n", "t">>
S_IssuesEvent == <<"I", "s", "s", "u", "e", "s", "E", "v", "e", "n", "t">>
S_PullRequestEvent == <<"P", "u", "l", "l", "R", "e", "q", "u", "e", "s", "t", "E", "v", "e", "n", "t">>
S_WatchEvent == <<"W", "a", "t", "c", "h", "E", "v", "e", "n", "t">>
S_ForkEvent == <<"F", "o", "r", "k", "E", "v", "e", "n", "t">>
S_CreateEvent == <<"C", "r", "e", "a", "t", "e", "E", "v", "e", "n", "t">>
S_DeleteEvent == <<"D", "e", "l", "e", "t", "e", "E", "v", "e", "n", "t">>
S_RefsTags == <<"r", "e", "f", "s", "/", "t", "a", "g", "s", "/">>
S_NoMessage == <<"N", "o", " ", "m", "e", "s", "s", "a", "g", "e">>
S_Unknown == <<"u", "n", "k", "n", "o", "w", "n">>

(***************************************************************************)
(* process_event_payload.  PushRaises .. EventRaises say where the Python  *)
(* code raises (a method of None, len(None), "in" on None); the details    *)
(* operators give the value it builds when it does not.                    *)
(***************************************************************************)
\* c.get("message", "No message").split('\n')[0] raises for commit c
CommitRaises(c) ==
  \/ ~IsObj(c)
  \/ ~IsStr(Get(c, "message", JStr(S_NoMessage)))
CommitMessage(c) == FirstSegment(Get(c, "message", JStr(S_NoMessage)).v, "\n")

PushRaises(payload) ==
  LET commits == Get(payload, "commits", JArr(<<>>))
      ref_full == Get(payload, "ref", JStr(<<>>))
  IN \/ (Truthy(ref_full) /\ ~IsStr(ref_full))
     \/ ref_full.t = "null"
     \/ commits.t \notin {"arr", "str", "obj"}
     \/ /\ ~(IsStr(ref_full) /\ Contains(ref_full.v, S_RefsTags))
        /\ \/ commits.t # "arr" /\ Truthy(commits)
           \/ commits.t = "arr" /\ \E i \in 1..Len(commits.v) : CommitRaises(commits.v[i])

PushDetails(payload) ==
  LET commits == Get(payload, "commits", JArr(<<>>))
      ref_full == Get(payload, "ref", JStr(<<>>))
      branch_or_tag == IF Truthy(ref_full) THEN LastSegment(ref_full.v, "/")
                       ELSE S_Unknown
      n == IF commits.t = "obj" THEN Cardinality(DOMAIN commits.v) ELSE Len(commits.v)
  IN IF Contains(ref_full.v, S_RefsTags)
     THEN [action |-> "Pushed Tag", tag |-> branch_or_tag, commit_count |-> n]
     ELSE IF n > 0
     THEN [action |-> "Pushed Commits", branch |-> branch_or_tag, commit_count |-> n,
           messages |-> [i \in 1..n |-> CommitMessage(commits.v[i])]]
     ELSE [action |-> "Pushed (No Commits)", ref |-> ref_full.v,
           note |-> "This is often a force-push, branch deletion, or other ref update."]

DetailsRaises(e_type, payload) ==
  \/ ~IsObj(payload)
  \/ /\ IsObj(payload)
     /\ \/ IsStrEq(e_type, S_PushEvent) /\ PushRaises(payload)
        \/ IsStrEq(e_type, S_IssuesEvent) /\ ~IsObj(Get(payload, "issue", EmptyObj))
        \/ IsStrEq(e_type, S_PullRequestEvent) /\ ~IsObj(Get(payload, "pull_request", EmptyObj))
        \/ IsStrEq(e_type, S_ForkEvent) /\ ~IsObj(Get(payload, "forkee", EmptyObj))

Details(e_type, payload) ==
  CASE IsStrEq(e_type, S_PushEvent) -> PushDetails(payload)
    [] IsStrEq(e_type, S_IssuesEvent) ->
         [action |-> Get(payload, "action", JNull),
          title |-> Get(Get(payload, "issue", EmptyObj), "title", JNull),
          url |-> Get(Get(payload, "issue", EmptyObj), "html_url", JNull)]
    [] IsStrEq(e_type, S_PullRequestEvent) ->
         [action |-> Get(payload, "action", JNull),
          title |-> Get(Get(payload, "pull_request", EmptyObj), "title", JNull),
          url |-> Get(Get(payload, "pull_request", EmptyObj), "html_url", JNull)]
    [] IsStrEq(e_type, S_WatchEvent) -> [action |-> Get(payload, "action", JNull)]
    [] IsStrEq(e_type, S_ForkEvent) ->
         [fork_url |-> Get(Get(payload, "forkee", EmptyObj), "html_url", JNull)]
    [] IsStrEq(e_type, S_CreateEvent) ->
         [ref_type |-> Get(payload, "ref_type", JNull),
          ref |-> Get(payload, "ref", JNull),
          description |-> Get(payload, "description", JNull)]
    [] IsStrEq(e_type, S_DeleteEvent) ->
         [ref_type |-> Get(payload, "ref_type", JNull),
          ref |-> Get(payload, "ref", JNull)]
    [] OTHER ->
         IF Truthy(Get(payload, "action", JNull))
         THEN [action |-> Get(payload, "action", JNull)]
         ELSE [unhandled_event |-> TRUE, payload_keys |-> DOMAIN payload.v]

\* does process_event_payload(event) raise
EventRaises(event) ==
  \/ DetailsRaises(Get(event, "type", JNull), Get(event, "payload", EmptyObj))
  \/ ~IsObj(Get(event, "repo", EmptyObj))
  \/ ~IsObj(Get(event, "actor", EmptyObj))

(***************************************************************************)
(* datetime.utcnow().isoformat(): the clock value t stands for second      *)
(* t \div TicksPerSec and microsecond field t % TicksPerSec.  isoformat    *)
(* writes "...:SS.ffffff", and "...:SS" alone when the microsecond field   *)
(* is 0.  The text is kept as the pair <<second, fraction>>, fraction 0    *)
(* standing for the missing ".ffffff".                                     *)
(***************************************************************************)
isoformat(t) == [sec |-> t \div TicksPerSec, frac |-> t % TicksPerSec]

\* the order of Python's str on isoformat(..) + "Z": the seconds compare
\* first (equal width); after them "Z" (no fraction) is above "." (0x5A > 0x2E)
IsoRank(s) ==
  s.sec * TicksPerSec + (IF s.frac = 0 THEN TicksPerSec - 1 ELSE s.frac - 1)
IsoLess(a, b) == IsoRank(a) < IsoRank(b)

\* the value process_event_payload returns at clock value t
process_event_payload(event, t) ==
  [repo |-> Get(Get(event, "repo", EmptyObj), "name", JNull),
   id |-> Get(event, "id", JNull),
   type |-> Get(event, "type", JNull),
   user |-> Get(Get(event, "actor", EmptyObj), "login", JNull),
   details |-> Details(Get(event, "type", JNull), Get(event, "payload", EmptyObj)),
   created_at |-> Get(event, "created_at", JNull),
   recorded_at |-> isoformat(t)]

(***************************************************************************)
(* The upstream: raw events and the responses to a fetch.                  *)
(***************************************************************************)
Actor == JObj([login |-> JStr(<<"a", "l">>)])
RepoAB == JObj([name |-> JStr(<<"a", "/", "b">>)])

\* a push of one commit to refs/heads/m
Ev1 ==
  JObj([id |-> JStr(<<"1">>), type |-> JStr(S_PushEvent), actor |-> Actor, repo |-> RepoAB,
        payload |-> JObj([ref |-> JStr(<<"r", "e", "f", "s", "/", "h", "e", "a", "d", "s", "/", "m">>),
                          commits |-> JArr(<<JObj([message |-> JStr(<<"f", "i", "x", "\n", "x">>)])>>)])])
\* a star
Ev2 ==
  JObj([id |-> JStr(<<"2">>), type |-> JStr(S_WatchEvent), actor |-> Actor, repo |-> RepoAB,
        payload |-> JObj([action |-> JStr(<<"s", "t", "a", "r", "t", "e", "d">>)])])
\* an event whose payload is null
Ev3 ==
  JObj([id |-> JStr(<<"3">>), type |-> JStr(S_WatchEvent), actor |-> Actor, repo |-> RepoAB,
        payload |-> JNull])
\* an event record without an id
EvNoId ==
  JObj([type |-> JStr(S_WatchEvent), actor |-> Actor, repo |-> RepoAB,
        payload |-> JObj([action |-> JStr(<<"s", "t", "a", "r", "t", "e", "d">>)])])

\* the status of a fetch that got no response: client.get raised
\* httpx.RequestError
NoResponse == 0

\* the responses of the upstream to one fetch: the status, the etag header
\* (None: no such header), whether the body is a JSON document, and the body,
\* a JSON array with the newest event first
Responses ==
  { [status |-> 200, etag |-> "e1", json |-> TRUE, body |-> <<Ev1>>],
    [status |-> 200, etag |-> "e2", json |-> TRUE, body |-> <<Ev2, Ev1>>],
    [status |-> 200, etag |-> "e2", json |-> TRUE, body |-> <<EvNoId, Ev2>>],
    [status |-> 200, etag |-> None, json |-> TRUE, body |-> <<Ev3, Ev1>>],
    [status |-> 200, etag |-> "e1", json |-> FALSE, body |-> <<>>],
    [status |-> 304, etag |-> None, json |-> TRUE, body |-> <<>>],
    [status |-> 404, etag |-> None, json |-> TRUE, body |-> <<>>],
    [status |-> 401, etag |-> None, json |-> TRUE, body |-> <<>>],
    [status |-> 403, etag |-> None, json |-> TRUE, body |-> <<>>],
    [status |-> 500, etag |-> None, json |-> TRUE, body |-> <<>>],
    [status |-> NoResponse, etag |-> None, json |-> TRUE, body |-> <<>>] }

\* the responses of the specification that observes POST /subscribe
SubscribeResponses == {resp \in Responses : resp.status \in {304, 404} \/ resp.body = <<Ev1>>}
\* the responses of the specification with the worker threads
ThreadResponses ==
  {resp \in Responses : resp.status = 304 \/ resp.body \in {<<Ev1>>, <<Ev3, Ev1>>}}

\* the decimal text of k < 1000
Digit(d) == <<"0", "1", "2", "3", "4", "5", "6", "7", "8", "9">>[d + 1]
IdOf(k) == <<Digit(k \div 100), Digit((k \div 10) % 10), Digit(k % 10)>>
\* the n-th page of the upstream's feed: events (n-1)*PageSize+1 .. n*PageSize,
\* the newest first
Page(n) ==
  [i \in 1..PageSize |->
     JObj([id |-> JStr(IdOf(n * PageSize + 1 - i)), type |-> JStr(S_WatchEvent),
           payload |-> EmptyObj])]

\* the refs of the pushes of the classification specification (<<>>: the
\* payload has no "ref"): none, empty, a branch, a tag, a branch whose name
\* holds "refs/tags/", a ref without "/"
PushRefs ==
  << <<>>,
     <<JStr(<<>>)>>,
     <<JStr(<<"r", "e", "f", "s", "/", "h", "e", "a", "d", "s", "/", "m">>)>>,
     <<JStr(<<"r", "e", "f", "s", "/", "t", "a", "g", "s", "/", "v", "1">>)>>,
     <<JStr(<<"r", "e", "f", "s", "/", "h", "e", "a", "d", "s", "/", "r", "e", "f", "s", "/", "t", "a", "g", "s", "/", "v", "1">>)>>,
     <<JStr(<<"m">>)>> >>
\* their commit lists (<<>>: the payload has no "commits"): none, empty, one
\* commit with a message of two lines, a commit without message and one with
PushCommits ==
  << <<>>,
     <<JArr(<<>>)>>,
     <<JArr(<<JObj([message |-> JStr(<<"f", "i", "x", "\n", "x">>)])>>)>>,
     <<JArr(<<EmptyObj, JObj([message |-> JStr(<<"a">>)])>>)>> >>
\* the dict with key k when the optional value is there, the empty dict when not
Field(k, opt) == IF opt = <<>> THEN <<>> ELSE (k :> opt[1])
\* the k-th push payload: every ref with every commit list
PushPayload(k) ==
  JObj(Field("ref", PushRefs[((k - 1) \div Len(PushCommits)) + 1])
       @@ Field("commits", PushCommits[((k - 1) % Len(PushCommits)) + 1]))
PushCount == Len(PushRefs) * Len(PushCommits)
\* the push event with the k-th payload; its id is the text of k
PushEv(k) ==
  JObj([id |-> JStr(IdOf(k)), type |-> JStr(S_PushEvent), actor |-> Actor, repo |-> RepoAB,
        payload |-> PushPayload(k)])
\* the responses of the classification specification: one push each
PushResponses ==
  {[status |-> 200, etag |-> "e1", json |-> TRUE, body |-> <<PushEv(k)>>] : k \in 1..PushCount}

(***************************************************************************)
(* State                                                                   *)
(***************************************************************************)
VARIABLES
  GITHUB_TOKEN,     \* os.getenv("GITHUB_TOKEN"): "tok" or None
  now,              \* the last value read from the wall clock (datetime.utcnow())
  poll_state,       \* dict repo -> {etag, last_check}, in insertion order;
                    \* last_check is <<>> for None and <<text>> for a text
  events,           \* the event log
  seen_event_ids,   \* the dedup ledger
  mgr,              \* poller_manager: its position and locals
  task,             \* the poll_repo_events task of each repo: position and locals
  clr,              \* the worker thread serving DELETE /clear
  insp,             \* the worker thread serving GET /inspect
  subResp,          \* observation: the last response of POST /subscribe
  cyclesLeft,       \* model bound: polling cycles that may still start
  clears,           \* model bound: clear requests served
  quiet,            \* history: a clear has completed and no response of the
                    \* upstream has been delivered since
  preClear          \* history: the ids that were in the log and in the ledger
                    \* when the last clear emptied the log

vars == <<GITHUB_TOKEN, now, poll_state, events, seen_event_ids, mgr, task, clr, insp,
          subResp, cyclesLeft, clears, quiet, preClear>>

\* the snapshot without the key registered last
KeysButLast(ps) == [i \in 1..(Len(ps) - 1) |-> ps[i].repo]

\* list(poll_state.keys())
Keys(ps) == [i \in 1..Len(ps) |-> ps[i].repo]
KeySet(ps) == {ps[i].repo : i \in 1..Len(ps)}
\* poll_state[repo]
Entry(ps, repo) == ps[CHOOSE i \in 1..Len(ps) : ps[i].repo = repo]
\* del poll_state[repo]
Del(ps, repo) == SelectSeq(ps, LAMBDA e : e.repo # repo)

\* a task record: its position, the If-None-Match header it sent, the status
\* it got, whether it ended in an except clause, the events still to iterate,
\* the list it builds and its return value; and, as history, whether its
\* response arrived after a completed clear with no clear since (afterClear),
\* and then the ids that response delivered
IdleTask ==
  [pc |-> "none", if_none_match |-> None, status |-> NoResponse, raised |-> FALSE,
   todo |-> <<>>, new_processed_events |-> <<>>, ret |-> <<>>,
   afterClear |-> FALSE, delivered |-> {}]

InitState ==
  /\ GITHUB_TOKEN \in {"tok", None}
  /\ now = 0
  /\ poll_state = <<>>
  /\ events = <<>>
  /\ seen_event_ids = {}
  /\ mgr = [pc |-> "start", tasks |-> <<>>, results |-> <<>>, i |-> 0,
            new_event_count |-> 0, sorted |-> <<>>]
  /\ task = [r \in Repos |-> IdleTask]
  /\ clr = [pc |-> "idle", ref |-> "current"]
  /\ insp = [pc |-> "idle", count |-> 0, data |-> <<>>, afterClear |-> FALSE]
  /\ subResp = [code |-> 0, status |-> None, repo |-> NoText]
  /\ clears = 0
  /\ quiet = FALSE
  /\ preClear = {}

Init == InitState /\ cyclesLeft = MaxCycles

\* the event loop is between two coroutine steps: no poll task is inside its
\* for loop and the manager is not inside its merge
LoopFree ==
  /\ \A r \in Repos : task[r].pc # "loop"
  /\ mgr.pc \notin {"merge", "store"}

\* datetime.utcnow() returns t: the clock never runs backwards, and now is
\* the last value read
ClockRead(t) ==
  /\ t \in now..MaxClock
  /\ now' = t

(***************************************************************************)
(* POST /subscribe (async def: one step of the event loop)                 *)
(***************************************************************************)
\* the registration without the test of line 231
RegisterAlways(ps, repo) ==
  IF repo \in KeySet(ps)
  THEN [i \in 1..Len(ps) |-> IF ps[i].repo = repo
                             THEN [repo |-> repo, etag |-> None, last_check |-> <<>>]
                             ELSE ps[i]]
  ELSE Append(ps, [repo |-> repo, etag |-> None, last_check |-> <<>>])

\* lines 231-234: poll_state after the registration of repo
Register(ps, repo) ==
  IF repo \in KeySet(ps) THEN ps
  ELSE Append(ps, [repo |-> repo, etag |-> None, last_check |-> <<>>])

subscribe_response(ps, url) ==
  LET repo_name == extract_repo(url)
  IN IF repo_name = NoText THEN [code |-> 400, status |-> "invalid", repo |-> NoText]
     ELSE IF repo_name \in KeySet(ps)
     THEN [code |-> 200, status |-> "already_subscribed", repo |-> repo_name]
     ELSE [code |-> 200, status |-> "subscribed", repo |-> repo_name]

subscribe_repo(url) ==
  /\ LoopFree
  /\ poll_state' = IF extract_repo(url) = NoText THEN poll_state
                   ELSE Register(poll_state, extract_repo(url))
  /\ UNCHANGED <<GITHUB_TOKEN, now, events, seen_event_ids, mgr, task, clr, insp,
                 cyclesLeft, clears, quiet, preClear>>

\* the request, its response not observed
Subscribe(url) == subscribe_repo(url) /\ UNCHANGED subResp
\* the request, its response observed
SubscribeObserved(url) ==
  subscribe_repo(url) /\ subResp' = subscribe_response(poll_state, url)

(***************************************************************************)
(* poll_repo_events(repo, client)                                          *)
(***************************************************************************)
\* the request without the lines 127-128: no If-None-Match header
PollSendUnconditional(ps, r) == [IdleTask EXCEPT !.pc = "await"]

\* lines 120-132: the task reads the stored etag, builds the headers and
\* sends the request; this is its record while it awaits the response
PollSend(ps, r) ==
  [IdleTask EXCEPT !.pc = "await",
                   !.if_none_match = IF r \in KeySet(ps) THEN Entry(ps, r).etag ELSE None]

\* repo_state["last_check"] = ... (line 134), on the dict read at line 120
SetLastCheck(ps, r, t) ==
  [i \in 1..Len(ps) |-> IF ps[i].repo = r THEN [ps[i] EXCEPT !.last_check = <<isoformat(t)>>]
                        ELSE ps[i]]
\* repo_state["etag"] = resp.headers.get("etag") (line 143)
SetEtag(ps, r, etag) ==
  [i \in 1..Len(ps) |-> IF ps[i].repo = r THEN [ps[i] EXCEPT !.etag = etag] ELSE ps[i]]
\* the 404 logged but the entry kept
Keep404(ps, r) == ps

\* lines 156-159
Remove404(ps, r) == IF r \in KeySet(ps) THEN Del(ps, r) ELSE ps

\* line 143 moved above the test of line 136: a 304 stores its etag header too
PollStateAfterEtagOn304(ps, r, resp, t) ==
  IF resp.status = NoResponse THEN ps
  ELSE LET checked == SetLastCheck(ps, r, t)
       IN CASE resp.status \in {200, 304} -> SetEtag(checked, r, resp.etag)
            [] resp.status = 404 -> Remove404(checked, r)
            [] OTHER -> checked

\* a 403 handled as the 404 is
PollStateAfterRemoveOn403(ps, r, resp, t) ==
  IF resp.status = NoResponse THEN ps
  ELSE LET checked == SetLastCheck(ps, r, t)
       IN CASE resp.status = 200 -> SetEtag(checked, r, resp.etag)
            [] resp.status \in {403, 404} -> Remove404(checked, r)
            [] OTHER -> checked

\* poll_state after the response resp to the fetch for r, read at time t
PollStateAfter(ps, r, resp, t) ==
  IF resp.status = NoResponse THEN ps
  ELSE LET checked == SetLastCheck(ps, r, t)
       IN CASE resp.status = 200 -> SetEtag(checked, r, resp.etag)
            [] resp.status = 404 -> Remove404(checked, r)
            [] OTHER -> checked

\* reversed(new_events_data)
Reversed(s) == [i \in 1..Len(s) |-> s[Len(s) + 1 - i]]

\* lines 132-146 and 156-172: the response arrives; every outcome but a 200
\* with a JSON body returns [] at once
PollResponse(r, resp, t) ==
  /\ LoopFree
  /\ task[r].pc = "await"
  /\ IF resp.status = NoResponse THEN t = now /\ now' = now ELSE ClockRead(t)
  /\ poll_state' = PollStateAfter(poll_state, r, resp, t)
  /\ LET after == clears > 0 /\ clr.pc = "idle"
         ids == IF after /\ resp.status = 200 /\ resp.json
                THEN {resp.body[i].v["id"] :
                        i \in {j \in 1..Len(resp.body) : "id" \in DOMAIN resp.body[j].v}}
                ELSE {}
     IN task' =
          IF resp.status = 200 /\ resp.json /\ resp.body # <<>>
          THEN [task EXCEPT ![r].pc = "loop", ![r].status = resp.status,
                            ![r].todo = Reversed(resp.body),
                            ![r].new_processed_events = <<>>,
                            ![r].afterClear = after, ![r].delivered = ids]
          ELSE [task EXCEPT ![r].pc = "done", ![r].status = resp.status,
                            ![r].raised = (resp.status = 200 /\ ~resp.json),
                            ![r].ret = <<>>,
                            ![r].afterClear = after, ![r].delivered = ids]
  /\ quiet' = (quiet /\ resp.status = NoResponse)
  /\ UNCHANGED <<GITHUB_TOKEN, events, seen_event_ids, mgr, clr, insp,
                 subResp, cyclesLeft, clears, preClear>>

\* event_data["id"] not in seen_event_ids
IsNew(id, seen) == id \notin seen

\* lines 148-154: one iteration of the for loop, and the return (or the
\* except clause of line 169) when it was the last one
PollLoop(r, t) ==
  /\ task[r].pc = "loop"
  /\ LET event_data == Head(task[r].todo)
         rest == Tail(task[r].todo)
         hasId == "id" \in DOMAIN event_data.v
         fresh == hasId /\ IsNew(event_data.v["id"], seen_event_ids)
         raises == ~hasId \/ (fresh /\ EventRaises(event_data))
         batch == IF fresh /\ ~raises
                  THEN Append(task[r].new_processed_events,
                              process_event_payload(event_data, t))
                  ELSE task[r].new_processed_events
     IN /\ IF fresh /\ ~raises THEN ClockRead(t) ELSE t = now /\ now' = now
        /\ seen_event_ids' = IF fresh THEN seen_event_ids \cup {event_data.v["id"]}
                             ELSE seen_event_ids
        /\ task' =
             IF raises
             THEN [task EXCEPT ![r].pc = "done", ![r].raised = TRUE, ![r].todo = <<>>,
                               ![r].new_processed_events = <<>>, ![r].ret = <<>>]
             ELSE IF rest = <<>>
             THEN [task EXCEPT ![r].pc = "done", ![r].todo = <<>>,
                               ![r].new_processed_events = <<>>, ![r].ret = batch]
             ELSE [task EXCEPT ![r].todo = rest, ![r].new_processed_events = batch]
  /\ UNCHANGED <<GITHUB_TOKEN, poll_state, events, mgr, clr, insp,
                 subResp, cyclesLeft, clears, quiet, preClear>>

(***************************************************************************)
(* poller_manager                                                          *)
(***************************************************************************)
\* lines 180-182
MgrStart ==
  /\ mgr.pc = "start"
  /\ mgr' = [mgr EXCEPT !.pc = IF GITHUB_TOKEN = None THEN "stopped" ELSE "top"]
  /\ UNCHANGED <<GITHUB_TOKEN, now, poll_state, events, seen_event_ids, task, clr, insp,
                 subResp, cyclesLeft, clears, quiet, preClear>>

\* lines 186-188: nothing to poll
MgrIdle ==
  /\ LoopFree
  /\ mgr.pc = "top"
  /\ poll_state = <<>>
  /\ mgr' = [mgr EXCEPT !.pc = "sleep"]
  /\ UNCHANGED <<GITHUB_TOKEN, now, poll_state, events, seen_event_ids, task, clr, insp,
                 subResp, cyclesLeft, clears, quiet, preClear>>

\* lines 192-193: one task per key of the snapshot, handed to asyncio.gather.
\* gather schedules the tasks back to back, so each runs up to its first await
\* (lines 120-132) before the event loop turns to anything else
FanOut ==
  /\ LoopFree
  /\ mgr.pc = "top"
  /\ poll_state # <<>>
  /\ mgr' = [mgr EXCEPT !.pc = "gather", !.tasks = Keys(poll_state)]
  /\ task' = [r \in Repos |-> IF r \in KeySet(poll_state)
                              THEN PollSend(poll_state, r)
                              ELSE IdleTask]
  /\ UNCHANGED <<GITHUB_TOKEN, now, poll_state, events, seen_event_ids, clr, insp,
                 subResp, clears, quiet, preClear>>

\* the fan-out of a cycle that counts against the bound MaxCycles
MgrFanOut ==
  /\ cyclesLeft > 0
  /\ cyclesLeft' = cyclesLeft - 1
  /\ FanOut

\* the fan-out of a cycle of the unbounded loop (while True)
MgrFanOutAgain == FanOut /\ UNCHANGED cyclesLeft

\* a failed task makes the cycle lose every result
GatherAllOrNothing(tasks, tk) ==
  [i \in 1..Len(tasks) |->
     IF \E j \in 1..Len(tasks) : tk[tasks[j]].raised \/ tk[tasks[j]].status \notin {200, 304}
     THEN <<>> ELSE tk[tasks[i]].ret]

\* results of gather(*tasks, return_exceptions=True): the return value of
\* every task, in the order of the snapshot (poll_repo_events catches every
\* Exception, so no result is an exception)
GatherResults(tasks, tk) == [i \in 1..Len(tasks) |-> tk[tasks[i]].ret]

\* line 193 returns when every task has
MgrGather ==
  /\ LoopFree
  /\ mgr.pc = "gather"
  /\ \A i \in 1..Len(mgr.tasks) : task[mgr.tasks[i]].pc = "done"
  /\ mgr' = [mgr EXCEPT !.pc = "merge", !.results = GatherResults(mgr.tasks, task),
                        !.i = 1, !.new_event_count = 0]
  /\ UNCHANGED <<GITHUB_TOKEN, now, poll_state, events, seen_event_ids, task, clr, insp,
                 subResp, cyclesLeft, clears, quiet, preClear>>

\* lines 196-201: one iteration of the for loop over the results
MgrExtend ==
  /\ mgr.pc = "merge"
  /\ mgr.i <= Len(mgr.results)
  /\ LET result == mgr.results[mgr.i]
     IN /\ events' = IF result # <<>> THEN events \o result ELSE events
        /\ mgr' = [mgr EXCEPT !.i = mgr.i + 1,
                              !.new_event_count = mgr.new_event_count + Len(result)]
  /\ UNCHANGED <<GITHUB_TOKEN, now, poll_state, seen_event_ids, task, clr, insp,
                 subResp, cyclesLeft, clears, quiet, preClear>>

RECURSIVE SortedDesc(_)
\* sorted(s, key=lambda x: x['recorded_at'], reverse=True): descending by the
\* text of recorded_at, entries with equal keys in their order in s
SortedDesc(s) ==
  IF s = <<>> THEN <<>>
  ELSE LET top == CHOOSE m \in {IsoRank(s[i].recorded_at) : i \in 1..Len(s)} :
                    \A i \in 1..Len(s) : IsoRank(s[i].recorded_at) <= m
       IN SelectSeq(s, LAMBDA e : IsoRank(e.recorded_at) = top)
            \o SortedDesc(SelectSeq(s, LAMBDA e : IsoRank(e.recorded_at) # top))

\* s[:n]
Take(s, n) == SubSeq(s, 1, IF Len(s) < n THEN Len(s) ELSE n)

\* line 205, right-hand side
SortAndTruncate(s) == Take(SortedDesc(s), LogCapacity)

\* lines 203-205, first half: the right-hand side is evaluated (sorted copies
\* the list, then calls the key function per entry); or nothing new (line 207)
MgrSort ==
  /\ mgr.pc = "merge"
  /\ mgr.i > Len(mgr.results)
  /\ mgr' = IF mgr.new_event_count > 0
            THEN [mgr EXCEPT !.pc = "store", !.sorted = SortAndTruncate(events)]
            ELSE [mgr EXCEPT !.pc = "sleep"]
  /\ UNCHANGED <<GITHUB_TOKEN, now, poll_state, events, seen_event_ids, task, clr, insp,
                 subResp, cyclesLeft, clears, quiet, preClear>>

\* line 205, the assignment: the global events is bound to the new list
MgrStore ==
  /\ mgr.pc = "store"
  /\ events' = mgr.sorted
  /\ mgr' = [mgr EXCEPT !.pc = "sleep"]
  /\ clr' = IF clr.pc = "loaded" THEN [clr EXCEPT !.ref = "stale"] ELSE clr
  /\ UNCHANGED <<GITHUB_TOKEN, now, poll_state, seen_event_ids, task, insp,
                 subResp, cyclesLeft, clears, quiet, preClear>>

\* line 187 or 207: the sleep is over; the locals of the cycle are dead
MgrSleep ==
  /\ mgr.pc = "sleep"
  /\ mgr' = [pc |-> "top", tasks |-> <<>>, results |-> <<>>, i |-> 0,
             new_event_count |-> 0, sorted |-> <<>>]
  /\ task' = [r \in Repos |-> IdleTask]
  /\ UNCHANGED <<GITHUB_TOKEN, now, poll_state, events, seen_event_ids, clr, insp,
                 subResp, cyclesLeft, clears, quiet, preClear>>

(***************************************************************************)
(* DELETE /clear (def: a worker thread)                                    *)
(***************************************************************************)
\* line 246, the global events is read
ClearLoad ==
  /\ clr.pc = "idle"
  /\ clears < MaxClears
  /\ clr' = [pc |-> "loaded", ref |-> "current"]
  /\ task' = [r \in Repos |-> [task[r] EXCEPT !.afterClear = FALSE, !.delivered = {}]]
  /\ quiet' = FALSE
  /\ UNCHANGED <<GITHUB_TOKEN, now, poll_state, events, seen_event_ids, mgr, insp,
                 subResp, cyclesLeft, clears, preClear>>

\* line 246, .clear() on the list that was read: the list the global names,
\* unless line 205 has bound the global to a new list since
ClearEvents ==
  /\ clr.pc = "loaded"
  /\ events' = IF clr.ref = "current" THEN <<>> ELSE events
  /\ clr' = [pc |-> "events_cleared", ref |-> "current"]
  /\ preClear' = {events[i].id : i \in 1..Len(events)} \cap seen_event_ids
  /\ UNCHANGED <<GITHUB_TOKEN, now, poll_state, seen_event_ids, mgr, task, insp,
                 subResp, cyclesLeft, clears, quiet>>

\* lines 247-249
ClearSeen ==
  /\ clr.pc = "events_cleared"
  /\ seen_event_ids' = {}
  /\ clr' = [pc |-> "idle", ref |-> "current"]
  /\ clears' = clears + 1
  /\ quiet' = TRUE
  /\ UNCHANGED <<GITHUB_TOKEN, now, poll_state, events, mgr, task, insp,
                 subResp, cyclesLeft, preClear>>

(***************************************************************************)
(* GET /inspect (def: a worker thread)                                     *)
(***************************************************************************)
\* line 241: len(events)
InspectLen ==
  /\ insp.pc = "idle"
  /\ insp' = [pc |-> "counted", count |-> Len(events), data |-> <<>>,
              afterClear |-> quiet]
  /\ UNCHANGED <<GITHUB_TOKEN, now, poll_state, events, seen_event_ids, mgr, task, clr,
                 subResp, cyclesLeft, clears, quiet, preClear>>

\* line 241: events[:20]; the response is complete
InspectSlice ==
  /\ insp.pc = "counted"
  /\ insp' = [insp EXCEPT !.pc = "responded", !.data = Take(events, InspectLimit),
                           !.afterClear = (insp.afterClear /\ quiet)]
  /\ UNCHANGED <<GITHUB_TOKEN, now, poll_state, events, seen_event_ids, mgr, task, clr,
                 subResp, cyclesLeft, clears, quiet, preClear>>

\* the response is sent
InspectReturn ==
  /\ insp.pc = "responded"
  /\ insp' = [pc |-> "idle", count |-> 0, data |-> <<>>, afterClear |-> FALSE]
  /\ UNCHANGED <<GITHUB_TOKEN, now, poll_state, events, seen_event_ids, mgr, task, clr,
                 subResp, cyclesLeft, clears, quiet, preClear>>

\* the poller and the event loop's handler
Next ==
  \/ \E url \in Urls : Subscribe(url)
  \/ MgrStart
  \/ MgrIdle
  \/ MgrFanOut
  \/ \E r \in Repos : \E resp \in Responses : \E t \in 0..MaxClock : PollResponse(r, resp, t)
  \/ \E r \in Repos : \E t \in 0..MaxClock : PollLoop(r, t)
  \/ MgrGather
  \/ MgrExtend
  \/ MgrSort
  \/ MgrStore
  \/ MgrSleep

Spec == Init /\ [][Next]_vars

\* the poller with the subscribe responses observed
NextSubscribe ==
  \/ \E url \in Urls : SubscribeObserved(url)
  \/ MgrStart
  \/ MgrIdle
  \/ MgrFanOut
  \/ \E r \in Repos : \E resp \in SubscribeResponses : \E t \in 0..MaxClock :
       PollResponse(r, resp, t)
  \/ \E r \in Repos : \E t \in 0..MaxClock : PollLoop(r, t)
  \/ MgrGather
  \/ MgrExtend
  \/ MgrSort
  \/ MgrStore
  \/ MgrSleep

SpecSubscribe == Init /\ [][NextSubscribe]_vars

\* the poller of one repository together with the worker threads
NextThreads ==
  \/ Subscribe(Url1)
  \/ MgrStart
  \/ MgrIdle
  \/ MgrFanOut
  \/ \E r \in Repos : \E resp \in ThreadResponses : \E t \in 0..MaxClock :
       PollResponse(r, resp, t)
  \/ \E r \in Repos : \E t \in 0..MaxClock : PollLoop(r, t)
  \/ MgrGather
  \/ MgrExtend
  \/ MgrSort
  \/ MgrStore
  \/ MgrSleep
  \/ ClearLoad
  \/ ClearEvents
  \/ ClearSeen
  \/ InspectLen
  \/ InspectSlice
  \/ InspectReturn

SpecThreads == Init /\ [][NextThreads]_vars

\* the poller of one repository whose upstream serves, in its n-th cycle, the
\* n-th page of fresh events
InitBulk == InitState /\ cyclesLeft = MaxBulkCycles

BulkResponse ==
  [status |-> 200, etag |-> "e1", json |-> TRUE, body |-> Page(MaxBulkCycles - cyclesLeft)]

NextBulk ==
  \/ Subscribe(Url1)
  \/ MgrStart
  \/ MgrIdle
  \/ MgrFanOut
  \/ \E r \in Repos : \E t \in 0..MaxClock : PollResponse(r, BulkResponse, t)
  \/ \E r \in Repos : \E t \in 0..MaxClock : PollLoop(r, t)
  \/ MgrGather
  \/ MgrExtend
  \/ MgrSort
  \/ MgrStore
  \/ MgrSleep

SpecBulk == InitBulk /\ [][NextBulk]_vars

\* the poller of one repository whose upstream serves pushes of every shape
NextPush ==
  \/ Subscribe(Url1)
  \/ MgrStart
  \/ MgrIdle
  \/ MgrFanOut
  \/ \E r \in Repos : \E resp \in PushResponses : \E t \in 0..MaxClock :
       PollResponse(r, resp, t)
  \/ \E r \in Repos : \E t \in 0..MaxClock : PollLoop(r, t)
  \/ MgrGather
  \/ MgrExtend
  \/ MgrSort
  \/ MgrStore
  \/ MgrSleep

SpecPush == Init /\ [][NextPush]_vars

\* the responses of the unbounded specification
LiveResponses ==
  {resp \in Responses : resp.status # 200 \/ (resp.json /\ resp.body = <<Ev1>>)}

\* the poller and the subscribe handler, the loop not bounded
NextLive ==
  \/ \E url \in Urls : Subscribe(url)
  \/ MgrStart
  \/ MgrIdle
  \/ MgrFanOutAgain
  \/ \E r \in Repos : \E resp \in LiveResponses : \E t \in 0..MaxClock :
       PollResponse(r, resp, t)
  \/ \E r \in Repos : \E t \in 0..MaxClock : PollLoop(r, t)
  \/ MgrGather
  \/ MgrExtend
  \/ MgrSort
  \/ MgrStore
  \/ MgrSleep

\* the event loop runs every coroutine that is ready: the sleep of lines 187
\* and 207 ends, and every fetch ends with a response or with an error (the
\* timeout of line 132).  No request of a client is ever owed.
FairLive ==
  /\ WF_vars(MgrStart)
  /\ WF_vars(MgrIdle)
  /\ WF_vars(MgrFanOutAgain)
  /\ WF_vars(\E r \in Repos : \E resp \in LiveResponses : \E t \in 0..MaxClock :
               PollResponse(r, resp, t))
  /\ WF_vars(\E r \in Repos : \E t \in 0..MaxClock : PollLoop(r, t))
  /\ WF_vars(MgrGather)
  /\ WF_vars(MgrExtend)
  /\ WF_vars(MgrSort)
  /\ WF_vars(MgrStore)
  /\ WF_vars(MgrSleep)

SpecLive == Init /\ [][NextLive]_vars /\ FairLive

(***************************************************************************)
(* Properties                                                              *)
(***************************************************************************)
\* the ids of the entries of a list of classified events
IdsOf(s) == {s[i].id : i \in 1..Len(s)}
\* how many entries of s carry id
Count(s, id) == Cardinality({i \in 1..Len(s) : s[i].id = id})

\* the batches that polls have built or returned and the manager has not yet
\* appended to the log
Pending ==
  CASE mgr.pc = "gather" ->
         [i \in 1..Len(mgr.tasks) |->
            IF task[mgr.tasks[i]].pc = "done" THEN task[mgr.tasks[i]].ret
            ELSE task[mgr.tasks[i]].new_processed_events]
    [] mgr.pc = "merge" ->
         [i \in 1..Len(mgr.results) |-> IF i >= mgr.i THEN mgr.results[i] ELSE <<>>]
    [] OTHER -> <<>>

RECURSIVE Flatten(_)
Flatten(batches) ==
  IF batches = <<>> THEN <<>> ELSE Head(batches) \o Flatten(Tail(batches))

\* the classified events with this id that exist: in the log or on their way
Produced(id) == Count(events, id) + Count(Flatten(Pending), id)

\* the poll of r failed: no response, a non-success status, or an exception
\* while the response was handled
Failed(r) == task[r].pc = "done" /\ (task[r].raised \/ task[r].status \notin {200, 304})

\* C1: an id that a 200 response delivers again (the ledger holds it, the poll
\* is about to skip it) has produced exactly one ClassifiedEvent: the one of
\* its first delivery, which was returned to the manager (no clear in between:
\* Spec has none).
C1_RedeliveredIdHasOneEvent ==
  \A r \in Repos :
    (/\ task[r].pc = "loop"
     /\ "id" \in DOMAIN Head(task[r].todo).v
     /\ Head(task[r].todo).v["id"] \in seen_event_ids)
      => Produced(Head(task[r].todo).v["id"]) = 1

\* C2: the log never holds two entries with the same id.
C2_NoDuplicateIds ==
  \A i, j \in 1..Len(events) : i # j => events[i].id # events[j].id

\* the capture time that a recorded_at text denotes
CaptureTime(s) == s.sec * TicksPerSec + s.frac

\* the capture times are descending along s
SortedByRecordedAt(s) ==
  \A i \in 1..(Len(s) - 1) :
    CaptureTime(s[i].recorded_at) >= CaptureTime(s[i + 1].recorded_at)

\* C3: whenever the manager is not inside its merge (so after every merge and
\* at the end of every cycle) the log is sorted by recorded_at, the capture
\* time, descending, and holds at most 200 entries.
C3_SortedAndBounded ==
  mgr.pc \notin {"merge", "store"} =>
    SortedByRecordedAt(events) /\ Len(events) <= LogCapacity

\* what the merge does keep: the log is descending in the order of Python's
\* str on the recorded_at texts, and holds at most 200 entries
LogSortedByTextAndBounded ==
  mgr.pc \notin {"merge", "store"} =>
    /\ \A i \in 1..(Len(events) - 1) :
         ~IsoLess(events[i].recorded_at, events[i + 1].recorded_at)
    /\ Len(events) <= LogCapacity

\* C4: a 404 for r removes r and nothing else from the registry; a fetch is
\* only ever issued for a key of the registry; and a key that is absent
\* becomes present by a subscribe of that key alone.
C4_NotFoundRemoves ==
  /\ [][\A r \in Repos : \A resp \in Responses : \A t \in 0..MaxClock :
          (resp.status = 404 /\ PollResponse(r, resp, t)) =>
             /\ r \notin KeySet(poll_state')
             /\ Keys(poll_state') = SelectSeq(Keys(poll_state), LAMBDA q : q # r)
             /\ \A q \in KeySet(poll_state') : Entry(poll_state', q) = Entry(poll_state, q)]_vars
  /\ [][\A r \in Repos :
          (task[r].pc # "await" /\ task'[r].pc = "await") => r \in KeySet(poll_state)]_vars
  /\ [][\A r \in Repos :
          (r \notin KeySet(poll_state) /\ r \in KeySet(poll_state')) =>
             \E url \in Urls : extract_repo(url) = r /\ Subscribe(url)]_vars

\* C4's case: the poll of a key got a 404, the key is gone, another key remains
C4_Witness ==
  \E r \in Repos :
    /\ task[r].pc = "done" /\ task[r].status = 404
    /\ r \notin KeySet(poll_state)
    /\ poll_state # <<>>

\* C5: a 304 for r changes nothing but r's last_check: the log, the ledger,
\* the keys, every etag and every other entry stay; and the manager's merge
\* of that poll's result leaves the log as it is.
C5_NotModifiedFrame ==
  /\ [][\A r \in Repos : \A resp \in Responses : \A t \in 0..MaxClock :
          (resp.status = 304 /\ PollResponse(r, resp, t)) =>
             /\ events' = events
             /\ seen_event_ids' = seen_event_ids
             /\ Keys(poll_state') = Keys(poll_state)
             /\ \A i \in 1..Len(poll_state) :
                  /\ poll_state'[i].etag = poll_state[i].etag
                  /\ (poll_state[i].repo # r => poll_state'[i] = poll_state[i])]_vars
  /\ [][(/\ mgr.pc = "merge"
         /\ mgr.i <= Len(mgr.tasks)
         /\ mgr'.i = mgr.i + 1
         /\ task[mgr.tasks[mgr.i]].status = 304) => events' = events]_vars

\* C5's case: the poll of a key with a stored etag got a 304 while the log
\* holds events
C5_Witness ==
  \E r \in Repos :
    /\ task[r].pc = "done" /\ task[r].status = 304
    /\ r \in KeySet(poll_state)
    /\ Entry(poll_state, r).etag # None
    /\ Entry(poll_state, r).last_check = <<isoformat(now)>>
    /\ events # <<>>

\* C6: a subscribe of a registered key answers already_subscribed with that
\* key and leaves the registry as it is.
C6_SubscribeIdempotent ==
  [][\A url \in Urls :
       (/\ extract_repo(url) # NoText
        /\ extract_repo(url) \in KeySet(poll_state)
        /\ SubscribeObserved(url)) =>
          /\ poll_state' = poll_state
          /\ subResp'.status = "already_subscribed"
          /\ subResp'.repo = extract_repo(url)]_vars

\* C6's case: already_subscribed was answered for a key that has a stored
\* etag and whose poll is in flight
C6_Witness ==
  /\ subResp.status = "already_subscribed"
  /\ task[subResp.repo].pc = "await"
  /\ Entry(poll_state, subResp.repo).etag # None
  /\ Entry(poll_state, subResp.repo).last_check # <<>>

C9_FailureIsolated ==
  /\ (mgr.pc = "gather" /\ \A i \in 1..Len(mgr.tasks) : task[mgr.tasks[i]].pc = "done")
       => ENABLED MgrGather
  /\ (mgr.pc = "sleep" /\ \E i \in 1..Len(mgr.tasks) : Failed(mgr.tasks[i]))
       => \A i \in 1..Len(mgr.tasks) :
            \A j \in 1..Len(task[mgr.tasks[i]].ret) :
              \E k \in 1..Len(events) : events[k] = task[mgr.tasks[i]].ret[j]

\* C9's case: a cycle has ended in which one poll failed and another returned
\* events
C9_Witness ==
  /\ mgr.pc = "sleep"
  /\ \E i, j \in 1..Len(mgr.tasks) :
       /\ Failed(mgr.tasks[i])
       /\ task[mgr.tasks[j]].ret # <<>>
       /\ task[mgr.tasks[j]].ret[1].id \in IdsOf(events)

\* C10: a 401, a 403, another non-success status or a failed request for r
\* keeps r registered with its etag, and changes neither the ledger nor the
\* log nor another entry: only r's last_check may change.
C10_RejectedFrame ==
  /\ [][\A r \in Repos : \A resp \in Responses : \A t \in 0..MaxClock :
          (resp.status \in {401, 403, 500, NoResponse} /\ PollResponse(r, resp, t)) =>
             /\ events' = events
             /\ seen_event_ids' = seen_event_ids
             /\ Keys(poll_state') = Keys(poll_state)
             /\ \A i \in 1..Len(poll_state) :
                  /\ poll_state'[i].etag = poll_state[i].etag
                  /\ (poll_state[i].repo # r => poll_state'[i] = poll_state[i])
             /\ task'[r].pc = "done" /\ task'[r].ret = <<>>]_vars
  /\ [][(/\ mgr.pc = "merge"
         /\ mgr.i <= Len(mgr.tasks)
         /\ mgr'.i = mgr.i + 1
         /\ task[mgr.tasks[mgr.i]].status \in {401, 403, 500, NoResponse})
          => events' = events]_vars

\* C10's case: polls of keys with a stored etag ended rejected (403) and with
\* a transient error (500)
C10_Witness ==
  \E r, q \in Repos :
    /\ task[r].pc = "done" /\ task[r].status = 403
    /\ task[q].pc = "done" /\ task[q].status = 500
    /\ r \in KeySet(poll_state) /\ Entry(poll_state, r).etag # None
    /\ q \in KeySet(poll_state) /\ Entry(poll_state, q).etag # None
    /\ events # <<>>

\* C11: with or without a credential the manager's loop runs: the manager has
\* never returned while a key is in the registry waiting for its fetch.
C11_PollerRunsWithoutCredential ==
  ~(mgr.pc = "stopped" /\ poll_state # <<>>)

\* C12: the count and the data of an inspect response come from one state of
\* the log, which is sorted (in the order the merge sorts by) and within the
\* capacity: the data are the first 20 of count entries.
C12_InspectSeesOneLogState ==
  insp.pc = "responded" =>
    /\ Len(insp.data) = (IF insp.count < InspectLimit THEN insp.count ELSE InspectLimit)
    /\ insp.count <= LogCapacity
    /\ \A i \in 1..(Len(insp.data) - 1) :
         ~IsoLess(insp.data[i].recorded_at, insp.data[i + 1].recorded_at)

\* the owner/name locator that each request body of the model holds (NoText:
\* it holds none)
ExpectedRepo(url) ==
  CASE url = Url1 -> <<"a", "/", "b">>
    [] url = GH \o <<"a", "/", "b", "/">> -> <<"a", "/", "b">>
    [] url = GH \o <<"c", "/", "d", ".", "x", "/", "p">> -> <<"c", "/", "d", ".", "x">>
    [] OTHER -> NoText

\* C13: a subscribe of a text without a locator answers 400 and leaves the
\* registry; a subscribe of a text with one answers 200 with the owner/name
\* key, which does not end in "/", and the registry holds that key and the
\* keys it held.
C13_SubscribeLocator ==
  [][\A url \in Urls :
       SubscribeObserved(url) =>
         IF ExpectedRepo(url) = NoText
         THEN subResp'.code = 400 /\ poll_state' = poll_state
         ELSE /\ subResp'.code = 200
              /\ subResp'.repo = ExpectedRepo(url)
              /\ subResp'.repo[Len(subResp'.repo)] # "/"
              /\ KeySet(poll_state') = KeySet(poll_state) \cup {ExpectedRepo(url)}]_vars

\* C13's case: the text with a path after the name was registered under its
\* owner/name key, and a text without a locator was refused after it
C13_Witness ==
  /\ subResp.code = 400
  /\ <<"c", "/", "d", ".", "x">> \in KeySet(poll_state)

\* C14: the classifier fails for no event: whenever a poll is about to
\* classify an event of its response (the event has an id that is not in the
\* ledger), process_event_payload does not raise for it.
C14_ClassifierNeverFails ==
  \A r \in Repos :
    (/\ task[r].pc = "loop"
     /\ "id" \in DOMAIN Head(task[r].todo).v
     /\ IsNew(Head(task[r].todo).v["id"], seen_event_ids))
      => ~EventRaises(Head(task[r].todo))

\* does the text s begin with the text pre
StartsWith(s, pre) == Len(s) >= Len(pre) /\ SubSeq(s, 1, Len(pre)) = pre
\* the text after the last "/" of s (s itself when it has none)
FinalSegment(s) ==
  LET starts == {n \in 1..(Len(s) + 1) :
                   (n = 1 \/ s[n - 1] = "/") /\ \A j \in n..Len(s) : s[j] # "/"}
  IN SubSeq(s, CHOOSE n \in starts : TRUE, Len(s))
\* the first line of the text s
FirstLine(s) ==
  LET ends == {n \in 0..Len(s) :
                 (n = Len(s) \/ s[n + 1] = "\n") /\ \A j \in 1..n : s[j] # "\n"}
  IN SubSeq(s, 1, CHOOSE n \in ends : TRUE)

\* the detail d is the one the three cases give for a push of ref (a text,
\* empty when the payload has none) with the commit list commits; tagRef says
\* which refs count as tags.  The name of an empty ref is left open.
PushDetailAsClaimed(d, ref, commits, tagRef) ==
  IF tagRef
  THEN /\ d.action = "Pushed Tag"
       /\ d.commit_count = Len(commits)
       /\ (ref # <<>> => d.tag = FinalSegment(ref))
  ELSE IF Len(commits) >= 1
  THEN /\ d.action = "Pushed Commits"
       /\ d.commit_count = Len(commits)
       /\ (ref # <<>> => d.branch = FinalSegment(ref))
       /\ d.messages = [i \in 1..Len(commits) |->
                          IF "message" \in DOMAIN commits[i].v
                          THEN FirstLine(commits[i].v["message"].v)
                          ELSE S_NoMessage]
  ELSE /\ d.action = "Pushed (No Commits)"
       /\ d.ref = ref

\* the push payload of the log entry e
PayloadOf(e) == PushPayload(CHOOSE k \in 1..PushCount : JStr(IdOf(k)) = e.id)

\* C15: every push in the log carries the detail of its case: a ref under
\* refs/tags/ the tag detail, otherwise one or more commits the commits
\* detail, otherwise the no-commits detail with the full ref; the name is the
\* final segment of the ref.
C15_PushClassification ==
  \A i \in 1..Len(events) :
    LET ref == Get(PayloadOf(events[i]), "ref", JStr(<<>>)).v
        commits == Get(PayloadOf(events[i]), "commits", JArr(<<>>)).v
    IN PushDetailAsClaimed(events[i].details, ref, commits, StartsWith(ref, S_RefsTags))

\* what the classifier does keep: the three cases in that order, a tag being
\* any ref that holds "refs/tags/" anywhere
PushClassifiedByContainment ==
  \A i \in 1..Len(events) :
    LET ref == Get(PayloadOf(events[i]), "ref", JStr(<<>>)).v
        commits == Get(PayloadOf(events[i]), "commits", JArr(<<>>)).v
    IN PushDetailAsClaimed(events[i].details, ref, commits,
                           \E p \in 1..Len(ref) : StartsWith(SubSeq(ref, p, Len(ref)), S_RefsTags))

\* C16: the step that starts a cycle starts one fetch for each key of the
\* registry as it is then, in its order, and for no other key; a fetch starts
\* in no other step; with an empty registry the manager goes to sleep and
\* starts none; and while the manager is not waiting in gather no fetch is in
\* flight, so the fetches of a cycle are over before the next snapshot.
C16_CycleFetchesSnapshot ==
  /\ [][(mgr.pc = "top" /\ mgr'.pc = "gather") =>
          /\ Len(mgr'.tasks) = Len(poll_state)
          /\ \A i \in 1..Len(poll_state) : mgr'.tasks[i] = poll_state[i].repo
          /\ \A i, j \in 1..Len(mgr'.tasks) : i # j => mgr'.tasks[i] # mgr'.tasks[j]
          /\ \A r \in Repos :
               task'[r].pc = "await" <=> \E i \in 1..Len(poll_state) : poll_state[i].repo = r]_vars
  /\ [][\A r \in Repos :
          (task[r].pc # "await" /\ task'[r].pc = "await") =>
             (mgr.pc = "top" /\ mgr'.pc = "gather")]_vars
  /\ [][(mgr.pc = "top" /\ poll_state = <<>> /\ mgr' # mgr) =>
          (mgr'.pc = "sleep" /\ \A r \in Repos : task'[r].pc = "none")]_vars
  /\ [](mgr.pc # "gather" => \A r \in Repos : task[r].pc \in {"none", "done"})

\* C16's case: while the fetch of a key is in flight another key has been
\* subscribed, and no fetch was started for it
C16_Witness ==
  /\ mgr.pc = "gather"
  /\ \E r, q \in Repos :
       /\ task[r].pc = "await"
       /\ q \in KeySet(poll_state)
       /\ \A i \in 1..Len(mgr.tasks) : mgr.tasks[i] # q
       /\ task[q].pc = "none"

\* the poll of r ended rejected or with a transient error
EndedInError(r) ==
  task[r].pc = "done" /\ task[r].status \in {401, 403, 500, NoResponse}

\* a key is fetched again and again for as long as it is registered, and a
\* poll that ended rejected or with a transient error is followed by a new
\* fetch for its key
PollingGoesOn ==
  \A r \in Repos :
    /\ []<>(r \notin KeySet(poll_state) \/ task[r].pc = "await")
    /\ []<>(r \notin KeySet(poll_state) \/ task[r].pc # "await")
    /\ (EndedInError(r) ~> (r \in KeySet(poll_state) /\ task[r].pc = "await"))

\* C17: under the fair scheduling of the event loop the polling loop does not
\* stop: every registered key is fetched infinitely often while it stays, and
\* a key whose poll ended rejected or with a transient error is fetched again.
C17_PollingGoesOn == PollingGoesOn

\* the same for the process that was started with a credential
PollingGoesOnWithToken == (GITHUB_TOKEN = "tok") => PollingGoesOn

\* C18: the fetch started for a key carries the etag stored for it (None: no
\* If-None-Match header); a 200 for a key stores the etag header it carries;
\* the stored etag of a key changes in no other step; and a key enters the
\* registry without one.  So a fetch carries the etag of the last 200 since
\* the key was subscribed.
C18_ConditionalFetch ==
  /\ [][(mgr.pc = "top" /\ mgr'.pc = "gather") =>
          \A r \in KeySet(poll_state) :
            task'[r].if_none_match = Entry(poll_state, r).etag]_vars
  /\ [][\A r \in Repos : \A resp \in Responses : \A t \in 0..MaxClock :
          (resp.status = 200 /\ r \in KeySet(poll_state) /\ PollResponse(r, resp, t)) =>
             (r \in KeySet(poll_state') /\ Entry(poll_state', r).etag = resp.etag)]_vars
  /\ [][\A r \in Repos :
          (/\ r \in KeySet(poll_state) /\ r \in KeySet(poll_state')
           /\ Entry(poll_state', r).etag # Entry(poll_state, r).etag) =>
             \E resp \in Responses : \E t \in 0..MaxClock :
               resp.status = 200 /\ PollResponse(r, resp, t)]_vars
  /\ [][\A r \in Repos :
          (r \notin KeySet(poll_state) /\ r \in KeySet(poll_state')) =>
             Entry(poll_state', r).etag = None]_vars

\* C18's case: a fetch is in flight that carries the etag a 200 stored in the
\* cycle before, while the other key's fetch carries none
C18_Witness ==
  \E r, q \in Repos :
    /\ task[r].pc = "await" /\ task[r].if_none_match = "e2"
    /\ Entry(poll_state, r).etag = "e2"
    /\ task[q].pc = "await" /\ task[q].if_none_match = None

\* the place in the log of the entry with this id
PlaceOf(id) == CHOOSE k \in 1..Len(events) : events[k].id = id

\* C19: the batch a poll returns runs from the oldest to the newest event of
\* its response with capture times that never decrease, and at the end of the
\* cycle, of two events of one batch that are both in the log the newer one
\* is nearer the head.
C19_BatchOrderKept ==
  \A r \in Repos :
    task[r].pc = "done" =>
      \A i, j \in 1..Len(task[r].ret) :
        i < j =>
          /\ CaptureTime(task[r].ret[i].recorded_at) <= CaptureTime(task[r].ret[j].recorded_at)
          /\ (/\ mgr.pc = "sleep"
              /\ task[r].ret[i].id \in IdsOf(events)
              /\ task[r].ret[j].id \in IdsOf(events))
               => PlaceOf(task[r].ret[j].id) < PlaceOf(task[r].ret[i].id)

\* C20: no event is lost by a poll: at the end of a cycle every id of the
\* ledger belongs to an event of the log (no clear and no eviction here: the
\* log stays far below its capacity).
C20_LedgerIdsAreLogged ==
  mgr.pc = "sleep" => \A id \in seen_event_ids : id \in IdsOf(events)
====
